---- MODULE Spec2Model ----
(***************************************************************************)
(* A model of the gameplay core of the side-view soccer game: the Player   *)
(* state machine (Player.ts), the Match Controller (GameScene), the match  *)
(* clock (GameUI.ts) and the one-shot timers both schedule on the scene    *)
(* clock.                                                                  *)
(*                                                                         *)
(* One engine frame is modelled as the engine runs it:                     *)
(*   ClockUpdate  - the scene clock and the tween manager advance by the   *)
(*                  frame delta and run the callbacks that are due;        *)
(*   WorldStep    - the arcade physics world integrates the bodies (it is  *)
(*                  skipped while physics is paused);                      *)
(*   Overlap...   - the overlap callbacks registered in setupPhysics, each *)
(*                  at most once per frame, in registration order;         *)
(*   SceneUpdate  - GameScene.update.                                      *)
(* Times are in the program's time-units (milliseconds).  Absolute         *)
(* timestamps (time.now, lastGoalTime, lastManualCollisionP1/P2) are kept  *)
(* as ages, now - timestamp, saturated just above the threshold the code   *)
(* compares them with.  Positions on the field belong to the physics       *)
(* engine: a handler that reads them takes what it reads as an input; the  *)
(* model keeps each player's height and vertical velocity, which decide    *)
(* the grounded flag, and the ball's velocity and spin.                    *)
(***************************************************************************)
EXTENDS Integers, Sequences, FiniteSets, TLC

VARIABLES
  player,          \* [1..2 -> Player]  (player1 = left side, player2 = right side)
  ball,            \* the ball's velocity and spin
  isGameActive,    \* GameScene.isGameActive
  isGamePaused,    \* GameScene.isGamePaused
  physicsPaused,   \* this.physics.pause() / resume()
  player1Score,    \* GameScene.player1Score
  player2Score,    \* GameScene.player2Score
  lastGoal,        \* [set, age]: lastGoalTime # 0, and now - lastGoalTime
  lastManual,      \* [1..2 -> now - lastManualCollisionP<n>]
  ui,              \* GameUI: its score copy, gameTime, isGamePaused, gameTimer
  events,          \* the scene clock's pending one-shot TimerEvents, in insertion order
  endTween,        \* the fade tween of handleGameEnd: [alive, rem, data]
  queued,          \* the scene key this.scene.start was called with, "" if none
  scene,           \* which scene runs: "GameScene", "VictoryScene", "StartScene"
  victoryData,     \* what handleGameEnd handed to the VictoryScene
  phase,           \* position in the frame: "clock", "world", "overlap", "update"
  coll,            \* index of the last overlap callback considered this frame
  dt,              \* the frame's delta
  keys,            \* the keys GameScene.update found down: <<player 1's, player 2's>>
  kickCall,        \* Ball.kick called on its own: its arguments and its finalForce
                   \* before the speed limit; NoCall in a match
  ai               \* the AIController of a "1vAI" match; NoAI in a "1v1" match

vars == <<player, ball, isGameActive, isGamePaused, physicsPaused, player1Score,
          player2Score, lastGoal, lastManual, ui, events, endTween, queued,
          scene, victoryData, phase, coll, dt, keys, kickCall, ai>>

-----------------------------------------------------------------------------
(* Bound of the model: the match length in seconds (gameConfig.gameTime).  *)
GameTime == 1
(* Bound of the model: the goals the ball is let into in one run.          *)
MaxGoals == 2

(* The frame deltas the engine reports *)
Deltas == {100}
MaxDelta == CHOOSE d \in Deltas : \A e \in Deltas : e <= d

(* Program constants *)
GroundLevel == 648
GroundTolerance == 10
JumpFallDelay == 300
JumpLandDelay == 600
KickCooldown == 500
GoalDebounce == 1000
ManualCooldown == 200
TimerDelay == 1000
FadeDuration == 1000
MaxVelocityX == 800
MaxVelocityY == 1200
BounceForceX == 200
BounceForceY == -100
WorldTopY == 120

(* gameConfig.json is not among the source files: the values it supplies *)
MoveSpeed == 300
JumpPower == 500
SlideSpeed == 500
SlideDurationMs == 300
KickDurationMs == 300
StunDurationMs == 500
KickoffDelayMs == 200
GoalCelebrationMs == 300
NormalKickForce == 400
SlideKickForce == 600
JumpKickForce == 450
RunningKickForce == 550

Players == {1, 2}
Other(p) == 3 - p
PlayerSide(p) == IF p = 1 THEN "left" ELSE "right"

Sat(a, cap) == IF a > cap THEN cap ELSE a
GoalAgeCap == GoalDebounce + MaxDelta
ManualAgeCap == ManualCooldown + MaxDelta
Abs(n) == IF n < 0 THEN -n ELSE n
Sign(n) == IF n < 0 THEN -1 ELSE IF n > 0 THEN 1 ELSE 0

(* The five logical inputs of a player on one tick *)
Keys == [left : BOOLEAN, right : BOOLEAN, up : BOOLEAN, down : BOOLEAN, kick : BOOLEAN]
NoKeys == [left |-> FALSE, right |-> FALSE, up |-> FALSE, down |-> FALSE, kick |-> FALSE]

-----------------------------------------------------------------------------
(* The scene clock: this.scene.time.delayedCall(delay, callback).  An event *)
(* is [id, kind, p, rem]; a TimerEvent field of a Player holds 0 (null) or  *)
(* the id of the event it was assigned, which stays in the field after the  *)
(* event has fired.                                                         *)

EventIds(s) == {s.events[i].id : i \in 1..Len(s.events)}
HeldIds(s) == {s.player[p].jumpFallTimer : p \in Players}
                \cup {s.player[p].jumpLandTimer : p \in Players}
NewId(s) == CHOOSE n \in 1..(Len(s.events) + 2 * Cardinality(Players) + 1) :
              /\ n \notin EventIds(s) \cup HeldIds(s)
              /\ \A m \in 1..(n - 1) : m \in EventIds(s) \cup HeldIds(s)

delayedCall(s, id, delay, kind, p) ==
  [s EXCEPT !.events = Append(@, [id |-> id, kind |-> kind, p |-> p, rem |-> delay])]

\* TimerEvent.destroy(): the event's callback never runs
destroyTimer(s, id) ==
  [s EXCEPT !.events = SelectSeq(@, LAMBDA e : e.id # id)]

-----------------------------------------------------------------------------
(* Player (Player.ts).  Every operator takes the program state s and the    *)
(* player p and returns the program state after the method has run.         *)

SetP(s, p, pl) == [s EXCEPT !.player[p] = pl]

\* the state after the constructor
NewPlayer(p) ==
  [playerState |-> "idle", isStunned |-> FALSE, stunTimer |-> 0, slideTimer |-> 0,
   kickTimer |-> 0, facingRight |-> (PlayerSide(p) = "left"), isOnGround |-> FALSE,
   kickCooldown |-> 0, jumpFallTimer |-> 0, jumpLandTimer |-> 0,
   y |-> GroundLevel, vx |-> 0, vy |-> 0]

clearFallTimer(s, p) ==
  IF s.player[p].jumpFallTimer # 0
  THEN [destroyTimer(s, s.player[p].jumpFallTimer) EXCEPT !.player[p].jumpFallTimer = 0]
  ELSE s

clearLandTimer(s, p) ==
  IF s.player[p].jumpLandTimer # 0
  THEN [destroyTimer(s, s.player[p].jumpLandTimer) EXCEPT !.player[p].jumpLandTimer = 0]
  ELSE s

\* variant of clearJumpTimers: the land timer is left scheduled
clearFallOnly(s, p) == clearFallTimer(s, p)

clearJumpTimers(s, p) == clearLandTimer(clearFallTimer(s, p), p)

\* the callback of a jumpFallTimer (both scheduling sites pass the same body)
JumpFallCallback(s, p) ==
  IF s.player[p].playerState = "jumping"
  THEN [s EXCEPT !.player[p].vy = (JumpPower * 8) \div 10]
  ELSE s

\* the callback of a jumpLandTimer
JumpLandCallback(s, p) ==
  IF s.player[p].playerState = "jumping"
  THEN [s EXCEPT !.player[p].y = GroundLevel, !.player[p].vy = 0,
                 !.player[p].playerState = "idle"]
  ELSE s

\* this.jumpFallTimer = this.scene.time.delayedCall(300, ...)
setFallTimer(s, p, id) ==
  [delayedCall(s, id, JumpFallDelay, "jumpFall", p) EXCEPT !.player[p].jumpFallTimer = id]

\* this.jumpLandTimer = this.scene.time.delayedCall(600, ...)
setLandTimer(s, p, id) ==
  [delayedCall(s, id, JumpLandDelay, "jumpLand", p) EXCEPT !.player[p].jumpLandTimer = id]

addFallTimer(s, p) == setFallTimer(s, p, NewId(s))
addLandTimer(s, p) == setLandTimer(s, p, NewId(s))

\* "If no jump timers exist, create new ones for landing"
NoJumpTimers(pl) == pl.jumpFallTimer = 0 /\ pl.jumpLandTimer = 0

airKickRecovery(s, p) ==
  IF NoJumpTimers(s.player[p])
  THEN addLandTimer(IF s.player[p].vy < 0 THEN addFallTimer(s, p) ELSE s, p)
  ELSE s

\* variant of KickExpiryState: idle wherever the player is
AlwaysIdle(pl) == "idle"

\* the state the kick timer's expiry leaves a kicking player in
KickExpiryState(pl) == IF ~pl.isOnGround THEN "jumping" ELSE "idle"

stunTick(pl, deltaTime) ==
  IF pl.stunTimer > 0
  THEN IF pl.stunTimer - deltaTime <= 0
       THEN [pl EXCEPT !.stunTimer = @ - deltaTime, !.isStunned = FALSE,
                       !.playerState = IF @ = "stunned" THEN "idle" ELSE @]
       ELSE [pl EXCEPT !.stunTimer = @ - deltaTime]
  ELSE pl

slideTick(pl, deltaTime) ==
  IF pl.slideTimer > 0
  THEN IF pl.slideTimer - deltaTime <= 0 /\ pl.playerState = "sliding"
       THEN [pl EXCEPT !.slideTimer = @ - deltaTime, !.playerState = "idle"]
       ELSE [pl EXCEPT !.slideTimer = @ - deltaTime]
  ELSE pl

kickExpires(pl, deltaTime) ==
  pl.kickTimer > 0 /\ pl.kickTimer - deltaTime <= 0 /\ pl.playerState = "kicking"

kickTick(pl, deltaTime) ==
  IF pl.kickTimer > 0
  THEN IF kickExpires(pl, deltaTime)
       THEN [pl EXCEPT !.kickTimer = @ - deltaTime, !.playerState = KickExpiryState(pl)]
       ELSE [pl EXCEPT !.kickTimer = @ - deltaTime]
  ELSE pl

\* the kick timer, and the recovery of an airborne player whose kick ends
kickStep(s, p, deltaTime) ==
  IF kickExpires(s.player[p], deltaTime) /\ ~s.player[p].isOnGround
  THEN airKickRecovery(SetP(s, p, kickTick(s.player[p], deltaTime)), p)
  ELSE SetP(s, p, kickTick(s.player[p], deltaTime))

cooldownTick(pl, deltaTime) ==
  IF pl.kickCooldown > 0 THEN [pl EXCEPT !.kickCooldown = @ - deltaTime] ELSE pl

cooldownStep(s, p, deltaTime) == SetP(s, p, cooldownTick(s.player[p], deltaTime))

updateTimers(s, p, deltaTime) ==
  cooldownStep(
    kickStep(SetP(s, p, slideTick(stunTick(s.player[p], deltaTime), deltaTime)), p, deltaTime),
    p, deltaTime)

groundFlag(pl) ==
  [pl EXCEPT !.isOnGround = IF pl.playerState = "jumping" THEN FALSE
                            ELSE pl.y >= GroundLevel - GroundTolerance]
snapToGround(pl) == IF pl.y > GroundLevel + GroundTolerance THEN [pl EXCEPT !.y = GroundLevel] ELSE pl
clampVelocityX(pl) == IF Abs(pl.vx) > MaxVelocityX THEN [pl EXCEPT !.vx = Sign(@) * MaxVelocityX] ELSE pl
clampVelocityY(pl) == IF Abs(pl.vy) > MaxVelocityY THEN [pl EXCEPT !.vy = Sign(@) * MaxVelocityY] ELSE pl

updateGroundStatus(s, p) ==
  SetP(s, p, clampVelocityY(clampVelocityX(snapToGround(groundFlag(s.player[p])))))

handleStunnedState(s, p) == [s EXCEPT !.player[p].vx = 0]

handleSlidingState(s, p) ==
  [s EXCEPT !.player[p].vx = IF s.player[p].facingRight THEN SlideSpeed ELSE -SlideSpeed]

handleKickingState(s, p) == [s EXCEPT !.player[p].vx = 0]

\* horizontal movement, shared by handleJumpingState and handleInput
Move(pl, leftKey, rightKey) ==
  IF leftKey /\ ~rightKey THEN [pl EXCEPT !.vx = -MoveSpeed, !.facingRight = FALSE]
  ELSE IF rightKey /\ ~leftKey THEN [pl EXCEPT !.vx = MoveSpeed, !.facingRight = TRUE]
  ELSE [pl EXCEPT !.vx = 0]

handleJumpingState(s, p, k) == SetP(s, p, Move(s.player[p], k.left, k.right))

startSlide(s, p) ==
  [s EXCEPT !.player[p].playerState = "sliding", !.player[p].slideTimer = SlideDurationMs]

startKick(s, p) ==
  [s EXCEPT !.player[p].playerState = "kicking", !.player[p].kickTimer = KickDurationMs,
            !.player[p].kickCooldown = KickCooldown]

\* the jump of handleInput: state, upward velocity, fresh fall and land timers
startJump(s, p) ==
  addLandTimer(
    addFallTimer(
      clearJumpTimers([s EXCEPT !.player[p].playerState = "jumping",
                                !.player[p].vy = -JumpPower], p), p), p)

\* "SPECIAL CASE: AIR KICK": the jump timers are left scheduled
airKick(s, p) ==
  [s EXCEPT !.player[p].playerState = "kicking", !.player[p].kickTimer = KickDurationMs,
            !.player[p].kickCooldown = KickCooldown]

\* "ACTION PRIORITY SYSTEM": jump, else slide, else kick
takeAction(s, p, k) ==
  IF k.up /\ s.player[p].isOnGround /\ s.player[p].playerState = "idle"
    THEN startJump(s, p)
  ELSE IF k.down /\ s.player[p].isOnGround /\ s.player[p].slideTimer <= 0
            /\ s.player[p].playerState = "idle"
    THEN startSlide(s, p)
  ELSE IF k.kick /\ s.player[p].kickCooldown <= 0 /\ s.player[p].playerState # "sliding"
    THEN startKick(s, p)
  ELSE s

airKickInput(s, p, k) ==
  IF k.kick /\ s.player[p].kickCooldown <= 0 /\ s.player[p].playerState = "jumping"
  THEN airKick(s, p)
  ELSE s

handleInput(s, p, k) ==
  IF s.player[p].isStunned THEN s
  ELSE IF s.player[p].playerState = "sliding" THEN s
  ELSE airKickInput(takeAction(SetP(s, p, Move(s.player[p], k.left, k.right)), p, k), p, k)

\* the state-dependent branch of Player.update, after the timers and the ground status
PlayerBranch(s, p, k) ==
  IF s.player[p].isStunned THEN handleStunnedState(s, p)
  ELSE IF s.player[p].playerState = "sliding" THEN handleSlidingState(s, p)
  ELSE IF s.player[p].playerState = "kicking" THEN handleKickingState(s, p)
  ELSE IF s.player[p].playerState = "jumping" THEN handleJumpingState(s, p, k)
  ELSE handleInput(s, p, k)

PlayerUpdate(s, p, deltaTime, k) ==
  PlayerBranch(updateGroundStatus(updateTimers(s, p, deltaTime), p), p, k)

stun(s, p) ==
  [s EXCEPT !.player[p].isStunned = TRUE, !.player[p].stunTimer = StunDurationMs,
            !.player[p].playerState = "stunned", !.player[p].vx = 0]

isSliding(s, p) == s.player[p].playerState = "sliding"
isKicking(s, p) == s.player[p].playerState = "kicking"

\* variant of triggerKick: the cooldown is not looked at
kickAtOnce(s, p) == startKick(s, p)

triggerKick(s, p) == IF s.player[p].kickCooldown <= 0 THEN startKick(s, p) ELSE s

KickDirection(pl) == IF pl.facingRight THEN 1 ELSE -1

getKickForce(pl) ==
  IF pl.playerState = "sliding" THEN [x |-> KickDirection(pl) * SlideKickForce, y |-> -50]
  ELSE IF ~pl.isOnGround THEN [x |-> KickDirection(pl) * JumpKickForce, y |-> -150]
  ELSE IF Abs(pl.vx) > 150 THEN [x |-> KickDirection(pl) * RunningKickForce, y |-> -120]
  ELSE [x |-> KickDirection(pl) * NormalKickForce, y |-> -100]

getKickInfo(pl) ==
  [force |-> getKickForce(pl),
   type |-> IF pl.playerState = "sliding" THEN "slide"
            ELSE IF ~pl.isOnGround THEN "jump" ELSE "normal",
   distance |-> IF pl.playerState = "sliding" THEN 200
                ELSE IF ~pl.isOnGround THEN 120
                ELSE IF Abs(pl.vx) > 150 THEN 180 ELSE 100]

\* variant of ResetFields: the kick cooldown is left running
ResetButCooldown(pl) ==
  [pl EXCEPT !.vx = 0, !.vy = 0, !.isStunned = FALSE, !.stunTimer = 0, !.slideTimer = 0,
             !.kickTimer = 0, !.playerState = "idle"]

\* the timers and state Player.resetToKickoff sets, before it clears the jump timers
ResetFields(pl) ==
  [pl EXCEPT !.vx = 0, !.vy = 0, !.isStunned = FALSE, !.stunTimer = 0, !.slideTimer = 0,
             !.kickTimer = 0, !.kickCooldown = 0, !.playerState = "idle"]

\* variant of PlayerResetToKickoff: the facing is turned round, not set to the side's own
resetAndTurn(s, p) ==
  [clearJumpTimers(SetP(s, p, ResetFields(s.player[p])), p)
     EXCEPT !.player[p].facingRight = ~@]

PlayerResetToKickoff(s, p) ==
  [clearJumpTimers(SetP(s, p, ResetFields(s.player[p])), p)
     EXCEPT !.player[p].facingRight = (PlayerSide(p) = "left")]

-----------------------------------------------------------------------------
(* Ball (the velocity and spin it writes to its body).  Velocities are in   *)
(* whole units; a product with a fractional factor is rounded toward zero.  *)

MaxSpeed == 800

\* the integer part of the square root, by bisection of lo..hi
RECURSIVE SqrtIn(_, _, _)
SqrtIn(n, lo, hi) ==
  IF lo >= hi THEN lo
  ELSE LET mid == (lo + hi + 1) \div 2
       IN  IF mid * mid <= n THEN SqrtIn(n, mid, hi) ELSE SqrtIn(n, lo, mid - 1)
ISqrt(n) == IF n <= 0 THEN 0 ELSE SqrtIn(n, 0, 4096)
Length(v) == ISqrt(v.x * v.x + v.y * v.y)
\* n * num / den, rounded toward zero
Scale(n, num, den) == Sign(n) * ((Abs(n) * num) \div den)

Min(a, b) == IF a < b THEN a ELSE b
Max(a, b) == IF a > b THEN a ELSE b

\* variant of KickForce: the jump kick doubles impulse.y without taking its magnitude
KickForceSigned(force, kickType, distance) ==
  IF kickType = "slide"
    THEN [x |-> Scale(force.x, 15, 10), y |-> Scale(Scale(force.y, 15, 10), 3, 10)]
  ELSE IF kickType = "jump"
    THEN [x |-> Scale(force.x, 8, 10), y |-> -(2 * force.y)]
  ELSE
    [x |-> Scale(force.x, 300 + Min(distance, 300), 375),
     y |-> -Max(200, (distance * 15) \div 10)]

\* variant of KickForce: the normal kick adds the lift to the scaled impulse.y
KickForceAdded(force, kickType, distance) ==
  IF kickType = "slide"
    THEN [x |-> Scale(force.x, 15, 10), y |-> Scale(Scale(force.y, 15, 10), 3, 10)]
  ELSE IF kickType = "jump"
    THEN [x |-> Scale(force.x, 8, 10), y |-> -(2 * Abs(force.y))]
  ELSE
    [x |-> Scale(force.x, 300 + Min(distance, 300), 375),
     y |-> Scale(force.y, 300 + Min(distance, 300), 375) - Max(200, (distance * 15) \div 10)]

\* the force of Ball.kick before the speed limit
KickForce(force, kickType, distance) ==
  IF kickType = "slide"
    THEN [x |-> Scale(force.x, 15, 10), y |-> Scale(Scale(force.y, 15, 10), 3, 10)]
  ELSE IF kickType = "jump"
    THEN [x |-> Scale(force.x, 8, 10), y |-> -(2 * Abs(force.y))]
  ELSE \* normal: 0.8 + min(distance / 150, 2.0) * 0.4, that is (300 + min(distance, 300)) / 375
    [x |-> Scale(force.x, 300 + Min(distance, 300), 375),
     y |-> -Max(200, (distance * 15) \div 10)]

\* "Apply maximum speed limit": f of magnitude m, limited to lim
LimitTo(f, m, lim) ==
  IF m > lim THEN [x |-> Scale(f.x, lim, m), y |-> Scale(f.y, lim, m)] ELSE f
\* variant of LimitSpeed: no limit
Unlimited(f) == f

\* the magnitude rounded up: it is above the whole limit exactly when the real one is,
\* and dividing by it never leaves more than the limit
LengthUp(v) ==
  IF Length(v) * Length(v) = v.x * v.x + v.y * v.y THEN Length(v) ELSE Length(v) + 1
LimitSpeed(f) == LimitTo(f, LengthUp(f), (MaxSpeed * 12) \div 10)

\* the spin follows the magnitude before the limit and the side the force points to
KickSpin(f, forceX) == IF forceX > 0 THEN (Length(f) * 2) \div 100 ELSE -((Length(f) * 2) \div 100)

Kicked(f, forceX) == [vx |-> LimitSpeed(f).x, vy |-> LimitSpeed(f).y, spin |-> KickSpin(f, forceX)]

BallKick(b, force, kickType, distance) == Kicked(KickForce(force, kickType, distance), force.x)

onGoalPostHit(b) ==
  [b EXCEPT !.vx = -Scale(b.vx, 12, 10), !.vy = -Scale(Abs(b.vy), 8, 10)]

BallResetPosition(b) == [vx |-> 0, vy |-> 0, spin |-> 0]

\* Ball.update at position (x, y): the boundary bounce and the stability floor
bounceX(b, x) == IF x < 25 \/ x > 1152 - 25 THEN [b EXCEPT !.vx = -Scale(b.vx, 8, 10)] ELSE b
bounceY(b, y) == IF y < 25 THEN [b EXCEPT !.vy = -Scale(b.vy, 8, 10)] ELSE b
\* variant of stabilise: the velocity is stopped, the spin is left
stopOnly(b) ==
  IF Length([x |-> b.vx, y |-> b.vy]) < 3 THEN [b EXCEPT !.vx = 0, !.vy = 0] ELSE b

stabilise(b) ==
  IF Length([x |-> b.vx, y |-> b.vy]) < 3 THEN [b EXCEPT !.vx = 0, !.vy = 0, !.spin = 0] ELSE b

BallUpdate(b, x, y) == stabilise(bounceY(bounceX(b, x), y))

-----------------------------------------------------------------------------
(* GameUI (GameUI.ts): the score copy, the match clock and its pause flag   *)

NewUI ==
  [player1Score |-> 0, player2Score |-> 0, gameTime |-> GameTime, isGamePaused |-> FALSE,
   gameTimer |-> [alive |-> TRUE, paused |-> FALSE, elapsed |-> 0]]

updateScore(s, p1, p2) == [s EXCEPT !.ui.player1Score = p1, !.ui.player2Score = p2]

\* variant of Winner: player 1 wins a draw
WinnerOrDraw(p1, p2) == IF p1 >= p2 THEN 1 ELSE 2

Winner(p1, p2) == IF p1 > p2 THEN 1 ELSE IF p2 > p1 THEN 2 ELSE 0

\* the data GameUI.onGameEnd emits with 'gameEnd'
GameEndData(u) ==
  [player1Score |-> u.player1Score, player2Score |-> u.player2Score,
   winner |-> Winner(u.player1Score, u.player2Score)]

UIPauseGame(s) == [s EXCEPT !.ui.isGamePaused = TRUE, !.ui.gameTimer.paused = TRUE]
UIResumeGame(s) == [s EXCEPT !.ui.isGamePaused = FALSE, !.ui.gameTimer.paused = FALSE]
isPaused(s) == s.ui.isGamePaused

-----------------------------------------------------------------------------
(* GameScene, the Match Controller *)

LeftGoalX == 80
RightGoalX == 1152 - 80
GoalHeight == 80
CollisionDistance == 70

\* this.tweens.killAll(): the fade tween of handleGameEnd never completes
killAll(s) == [s EXCEPT !.endTween.alive = FALSE]

\* where resetToKickoff puts the ball and the players: the arguments of its calls of
\* resetPosition and setPosition, whatever the positions were
KickoffSpots ==
  [ball |-> [x |-> 1152 \div 2, y |-> (GroundLevel - 1) - 25],
   player |-> [p \in Players |->
                 [x |-> IF p = 1 THEN 1152 \div 2 - 200 ELSE 1152 \div 2 + 200,
                  y |-> GroundLevel]]]

\* the ball and the players back on their kickoff spots, the players reset
kickoffPositions(s) ==
  PlayerResetToKickoff(
    PlayerResetToKickoff([s EXCEPT !.ball = BallResetPosition(@),
                                   !.player[1].y = KickoffSpots.player[1].y,
                                   !.player[2].y = KickoffSpots.player[2].y], 1), 2)

kickoffDelay(s) == delayedCall(s, NewId(s), KickoffDelayMs, "kickoffDelay", 0)

resetToKickoff(s) == kickoffDelay(kickoffPositions(killAll([s EXCEPT !.isGameActive = FALSE])))

\* the callback of the kickoff delay
KickoffCallback(s) == [s EXCEPT !.isGameActive = TRUE]

\* the callback of the goal celebration
CelebrationCallback(s) == resetToKickoff(s)

\* variant of isProperKick: a ball level with the player counts as in front of it
isProperOrLevel(pl, ballRelativeToPlayer) ==
  \/ pl.facingRight /\ ballRelativeToPlayer >= 0
  \/ ~pl.facingRight /\ ballRelativeToPlayer <= 0

isProperKick(pl, ballRelativeToPlayer) ==
  \/ pl.facingRight /\ ballRelativeToPlayer > 0
  \/ ~pl.facingRight /\ ballRelativeToPlayer < 0

\* variant of Ignored: only the pause is honoured
PausedOnly(s) == isPaused(s)

\* the guard of handlePlayerBallContact, handlePlayerCollision and checkManualCollisions
Ignored(s) == ~s.isGameActive \/ isPaused(s)

\* variant of contactKick: a sliding player is given the kick animation too
kickUnlessKicking(s, p) == IF ~isKicking(s, p) THEN triggerKick(s, p) ELSE s

\* variant of contactKick: the kick is started whatever the player is doing
kickRegardless(s, p) == startKick(s, p)

\* the kick animation of a proper kick
contactKick(s, p) == IF ~isSliding(s, p) /\ ~isKicking(s, p) THEN triggerKick(s, p) ELSE s

properKick(s, p, kickInfo, ballDistance) ==
  contactKick([s EXCEPT !.ball = BallKick(@, kickInfo.force, kickInfo.type, ballDistance)], p)

\* variant of bodyBounce: a ball level with the player bounces to the right
bounceLevelRight(s, ballRelativeToPlayer) ==
  [s EXCEPT !.ball.vx = IF ballRelativeToPlayer >= 0 THEN BounceForceX ELSE -BounceForceX,
            !.ball.vy = BounceForceY]

bodyBounce(s, ballRelativeToPlayer) ==
  [s EXCEPT !.ball.vx = IF ballRelativeToPlayer > 0 THEN BounceForceX ELSE -BounceForceX,
            !.ball.vy = BounceForceY]

handlePlayerBallContact(s, p, ballRelativeToPlayer, ballDistance) ==
  IF Ignored(s) THEN s
  ELSE IF isProperKick(s.player[p], ballRelativeToPlayer)
    THEN properKick(s, p, getKickInfo(s.player[p]), ballDistance)
    ELSE bodyBounce(s, ballRelativeToPlayer)

\* variant of handlePlayerCollision: a sliding player 1 stuns a sliding player 2 too
tackleFirst(s) ==
  IF Ignored(s) THEN s
  ELSE IF isSliding(s, 1) THEN stun(s, 2)
  ELSE IF isSliding(s, 2) THEN stun(s, 1)
  ELSE s

handlePlayerCollision(s) ==
  IF Ignored(s) THEN s
  ELSE IF isSliding(s, 1) /\ ~isSliding(s, 2) THEN stun(s, 2)
  ELSE IF isSliding(s, 2) /\ ~isSliding(s, 1) THEN stun(s, 1)
  ELSE s

\* variant of GoalRecent: no debounce window
NeverRecent(s) == FALSE

\* "PREVENT DUPLICATE GOALS": a goal was accepted less than GoalDebounce ago
GoalRecent(s) == s.lastGoal.set /\ s.lastGoal.age < GoalDebounce

\* variant of stopAll: the match is frozen, the bodies keep their velocities
stopMatchOnly(s) == [s EXCEPT !.isGameActive = FALSE]

\* "IMMEDIATELY STOP ALL MOVEMENT"
stopAll(s) ==
  [s EXCEPT !.isGameActive = FALSE,
            !.player[1].vx = 0, !.player[1].vy = 0,
            !.player[2].vx = 0, !.player[2].vy = 0,
            !.ball.vx = 0, !.ball.vy = 0]

\* variant of addScore: the goal is counted for the other player
addScoreOther(s, scoringPlayer) ==
  IF scoringPlayer = 1 THEN [s EXCEPT !.player2Score = @ + 1]
                       ELSE [s EXCEPT !.player1Score = @ + 1]

addScore(s, scoringPlayer) ==
  IF scoringPlayer = 1 THEN [s EXCEPT !.player1Score = @ + 1]
                       ELSE [s EXCEPT !.player2Score = @ + 1]

showScore(s) == updateScore(s, s.player1Score, s.player2Score)

celebrate(s) == delayedCall(s, NewId(s), GoalCelebrationMs, "goalCelebration", 0)

handleGoal(s, scoringPlayer) ==
  IF ~s.isGameActive THEN s
  ELSE IF GoalRecent(s) THEN s
  ELSE celebrate(showScore(addScore(
         stopAll([s EXCEPT !.lastGoal = [set |-> TRUE, age |-> 0]]), scoringPlayer)))

handleGameEnd(s, data) ==
  [s EXCEPT !.isGameActive = FALSE,
            !.endTween = [alive |-> TRUE, rem |-> FadeDuration, data |-> data]]

\* GameUI.onGameEnd: the 'gameEnd' event reaches handleGameEnd
onGameEnd(s) == handleGameEnd(s, GameEndData(s.ui))

\* variant of timeUp: the match ends on the firing after the clock has reached zero
timeUpBelowZero(s) ==
  IF s.ui.gameTime < 0 THEN onGameEnd([s EXCEPT !.ui.gameTimer.alive = FALSE]) ELSE s

timeUp(s) == IF s.ui.gameTime <= 0 THEN onGameEnd([s EXCEPT !.ui.gameTimer.alive = FALSE]) ELSE s

\* GameUI.updateTimer, the callback of the match clock
updateTimer(s) == timeUp([s EXCEPT !.ui.gameTime = @ - 1])

pauseGame(s) == [UIPauseGame(s) EXCEPT !.isGamePaused = TRUE, !.physicsPaused = TRUE]
resumeGame(s) == [UIResumeGame(s) EXCEPT !.isGamePaused = FALSE, !.physicsPaused = FALSE]

\* the position test of the "SIMPLIFIED GOAL DETECTION"
InGoalBand(y) == y >= GroundLevel - GoalHeight - 20 /\ y <= GroundLevel + 20
LeftGoalDetected(x, y) == x <= LeftGoalX + 20 /\ InGoalBand(y)
RightGoalDetected(x, y) == x >= RightGoalX - 20 /\ InGoalBand(y)

\* variant of ManualContact: a contact is resolved again as soon as the cooldown has run
ManualContactAt(s, p, g) ==
  IF g.dist[p] < CollisionDistance /\ s.lastManual[p] >= ManualCooldown
  THEN handlePlayerBallContact([s EXCEPT !.lastManual[p] = 0], p, g.rel[p], g.dist[p])
  ELSE s

\* one player's manual contact check; g is what the check reads of the positions
ManualContact(s, p, g) ==
  IF g.dist[p] < CollisionDistance /\ s.lastManual[p] > ManualCooldown
  THEN handlePlayerBallContact([s EXCEPT !.lastManual[p] = 0], p, g.rel[p], g.dist[p])
  ELSE s

manualLeftGoal(s, g) ==
  IF LeftGoalDetected(g.x, g.y) /\ s.lastGoal.age > GoalDebounce THEN handleGoal(s, 2) ELSE s

manualRightGoal(s, g) ==
  IF RightGoalDetected(g.x, g.y) /\ s.lastGoal.age > GoalDebounce THEN handleGoal(s, 1) ELSE s

checkManualCollisions(s, g) ==
  IF Ignored(s) THEN s
  ELSE manualRightGoal(manualLeftGoal(ManualContact(ManualContact(s, 1, g), 2, g), g), g)

\* where Ball.update leaves the ball's x
BallClampX(x) == IF x < 25 THEN 25 ELSE IF x > 1152 - 25 THEN 1152 - 25 ELSE x
BallClampY(y) == IF y < 25 THEN 25 ELSE y

ballUpdate(s, x, y) == [s EXCEPT !.ball = BallUpdate(@, x, y)]

\* what checkManualCollisions reads after Ball.update has put the ball back in bounds
Clamped(g) == [g EXCEPT !.x = BallClampX(@), !.y = BallClampY(@)]

\* GameScene.update (gameMode is "1v1")
update(s, delta, k1, k2, g) ==
  IF Ignored(s) THEN s
  ELSE checkManualCollisions(
         ballUpdate(PlayerUpdate(PlayerUpdate(s, 1, delta, k1), 2, delta, k2), g.x, g.y),
         Clamped(g))

-----------------------------------------------------------------------------
(* AIController (AIController.ts), difficulty "medium", driving player 2.   *)
(* Every operator takes the controller a and returns it after the method    *)
(* has run; its field controls is what executeAction has built.  What the   *)
(* methods read of the positions is the g of update; what they draw with    *)
(* Math.random, and the side the target lies on, is the c of the tick.      *)
(* GameScene creates the controller when its gameMode is "1vAI"; the field  *)
(* starts as "1v1" and no source of the repository assigns it, so Next is   *)
(* the "1v1" match and the controller runs in AISpec only.                  *)

ReactionTime == 200
ReactionSpeedPct == 100
\* reactionTime / reactionSpeed
DecisionInterval == (ReactionTime * 100) \div ReactionSpeedPct
DecisionAgeCap == DecisionInterval + MaxDelta
\* ten times cameras.main.width * 0.9, the own goal of the right side
OwnGoalX10 == 9 * 1152

NoControls == [left |-> FALSE, right |-> FALSE, jump |-> FALSE, slide |-> FALSE, kick |-> FALSE]

\* the state after the constructor; lastDecision is time.now - lastDecisionTime
NewAI ==
  [currentAction |-> "idle", lastDecision |-> DecisionAgeCap, actionTimer |-> 0,
   jumpTimer |-> 0, kickTimer |-> 0, controls |-> NoControls]

\* a timer less deltaTime; the code tests the timers against zero only, and the model
\* keeps no value below it
Down(t, deltaTime) == Max(t - deltaTime, 0)

AITimers(a, deltaTime) ==
  [a EXCEPT !.actionTimer = Down(@, deltaTime), !.jumpTimer = Down(@, deltaTime),
            !.kickTimer = Down(@, deltaTime)]

\* Ball.isMoving
isMoving(b) == b.vx * b.vx + b.vy * b.vy > 20 * 20

NearOwnGoal(x) == 10 * x < OwnGoalX10 + 2000 /\ 10 * x > OwnGoalX10 - 2000

\* variant of SelectAction: the chase rule is tried before the attack rule
SelectChaseFirst(s, g) ==
  IF g.dist[2] < 120 /\ s.ball.vx * s.ball.vx + s.ball.vy * s.ball.vy < 100 * 100
    THEN "chase"
  ELSE IF g.dist[2] < 80 /\ ~isMoving(s.ball) THEN "attack"
  ELSE IF NearOwnGoal(g.x) THEN "defend"
  ELSE "idle"

\* the behaviour makeDecision selects
SelectAction(s, g) ==
  IF g.dist[2] < 80 /\ ~isMoving(s.ball) THEN "attack"
  ELSE IF g.dist[2] < 120 /\ s.ball.vx * s.ball.vx + s.ball.vy * s.ball.vy < 100 * 100
    THEN "chase"
  ELSE IF NearOwnGoal(g.x) THEN "defend"
  ELSE "idle"

\* the dwell makeDecision samples: base + Math.random() * range, r tenths of the range
DwellOf(action, r) ==
  CASE action = "attack" -> 1000 + (r * 500) \div 10
    [] action = "chase" -> 800 + (r * 400) \div 10
    [] action = "defend" -> 600 + (r * 300) \div 10
    [] action = "idle" -> 400 + (r * 200) \div 10

makeDecision(a, s, g, r) ==
  [a EXCEPT !.currentAction = SelectAction(s, g),
            !.actionTimer = DwellOf(SelectAction(s, g), r)]

\* variant of Decide: no decision before the sampled dwell has run out
DecideAfterDwell(a, s, g, r) ==
  IF a.lastDecision > DecisionInterval /\ a.actionTimer <= 0
  THEN [makeDecision(a, s, g, r) EXCEPT !.lastDecision = 0]
  ELSE a

\* "Make decisions periodically"
Decide(a, s, g, r) ==
  IF a.lastDecision > DecisionInterval
  THEN [makeDecision(a, s, g, r) EXCEPT !.lastDecision = 0]
  ELSE a

\* "Jump if ball is high", of chaseAI, attackAI and defendAI
JumpCondition(a, s, g) ==
  CASE a.currentAction = "chase" -> g.y < s.player[2].y - 30 /\ a.jumpTimer <= 0
    [] a.currentAction = "attack" -> g.y < s.player[2].y - 20 /\ a.jumpTimer <= 0
    [] a.currentAction = "defend" ->
         g.y < s.player[2].y - 20 /\ s.ball.vy < 0 /\ a.jumpTimer <= 0
    [] OTHER -> FALSE

JumpDelayOf(action) == IF action = "attack" THEN 800 ELSE 1000

\* "Kick if close enough", of chaseAI, attackAI and defendAI
KickCondition(a, g) ==
  CASE a.currentAction = "chase" -> g.dist[2] < 60 /\ a.kickTimer <= 0
    [] a.currentAction = "attack" -> g.dist[2] < 70 /\ a.kickTimer <= 0
    [] a.currentAction = "defend" -> g.dist[2] < 80 /\ a.kickTimer <= 0
    [] OTHER -> FALSE

KickDelayOf(action) ==
  IF action = "chase" THEN 800 ELSE IF action = "attack" THEN 600 ELSE 700

executeAction(a, s, g, c) ==
  [a EXCEPT !.controls = [left |-> c.left, right |-> c.right,
                          jump |-> JumpCondition(a, s, g),
                          slide |-> (a.currentAction = "attack" /\ c.slide),
                          kick |-> KickCondition(a, g)],
            !.jumpTimer = IF JumpCondition(a, s, g) THEN JumpDelayOf(a.currentAction) ELSE @,
            !.kickTimer = IF KickCondition(a, g) THEN KickDelayOf(a.currentAction) ELSE @]

\* "GENTLE AI - limit rapid actions"
Gentle(a, s) ==
  [a EXCEPT !.controls.jump = @ /\ ~(a.jumpTimer > 0),
            !.controls.slide = @ /\ ~isSliding(s, 2),
            !.controls.kick = @ /\ ~isKicking(s, 2)]

\* AIController.update, up to its call of Player.update
AIUpdate(a, s, deltaTime, g, c) ==
  Gentle(executeAction(Decide(AITimers(a, deltaTime), s, g, c.r), s, g, c), s)

\* the controls as the five inputs of Player.update
AsKeys(controls) ==
  [left |-> controls.left, right |-> controls.right, up |-> controls.jump,
   down |-> controls.slide, kick |-> controls.kick]

\* GameScene.update, gameMode "1vAI"
updateVsAI(s, a, delta, k1, g, c) ==
  IF Ignored(s) THEN s
  ELSE checkManualCollisions(
         ballUpdate(PlayerUpdate(PlayerUpdate(s, 1, delta, k1), 2, delta,
                                 AsKeys(AIUpdate(a, s, delta, g, c).controls)), g.x, g.y),
         Clamped(g))

\* the controller after that update
aiAfter(s, a, delta, g, c) == IF Ignored(s) THEN a ELSE AIUpdate(a, s, delta, g, c)

\* time.now moves on by the frame delta
AIClock(a, d) ==
  IF a.currentAction = "none" THEN a ELSE [a EXCEPT !.lastDecision = Sat(@ + d, DecisionAgeCap)]

-----------------------------------------------------------------------------
(* The program state as one record, and its commitment to the variables *)

St ==
  [player |-> player, ball |-> ball, isGameActive |-> isGameActive,
   isGamePaused |-> isGamePaused, physicsPaused |-> physicsPaused,
   player1Score |-> player1Score, player2Score |-> player2Score,
   lastGoal |-> lastGoal, lastManual |-> lastManual, ui |-> ui, events |-> events,
   endTween |-> endTween, queued |-> queued, victoryData |-> victoryData]

Commit(r) ==
  /\ player' = r.player
  /\ ball' = r.ball
  /\ isGameActive' = r.isGameActive
  /\ isGamePaused' = r.isGamePaused
  /\ physicsPaused' = r.physicsPaused
  /\ player1Score' = r.player1Score
  /\ player2Score' = r.player2Score
  /\ lastGoal' = r.lastGoal
  /\ lastManual' = r.lastManual
  /\ ui' = r.ui
  /\ events' = r.events
  /\ endTween' = r.endTween
  /\ queued' = r.queued
  /\ victoryData' = r.victoryData

NoCall == [kickType |-> "none", force |-> [x |-> 0, y |-> 0], distance |-> 0,
           finalForce |-> [x |-> 0, y |-> 0]]
NoAI == [currentAction |-> "none"]
NoData == [player1Score |-> 0, player2Score |-> 0, winner |-> 0]
AtRest == [vx |-> 0, vy |-> 0, spin |-> 0]

\* resetGameState and the setup methods of create(), before startGame
Created ==
  [player |-> [p \in Players |-> NewPlayer(p)], ball |-> AtRest, isGameActive |-> TRUE,
   isGamePaused |-> FALSE, physicsPaused |-> FALSE, player1Score |-> 0, player2Score |-> 0,
   lastGoal |-> [set |-> FALSE, age |-> GoalAgeCap],
   lastManual |-> [p \in Players |-> ManualAgeCap], ui |-> NewUI, events |-> <<>>,
   endTween |-> [alive |-> FALSE, rem |-> 0, data |-> NoData], queued |-> "",
   victoryData |-> NoData]

startGame(s) == resetToKickoff([s EXCEPT !.isGameActive = TRUE])

InitAs(s) ==
  /\ player = s.player
  /\ ball = s.ball
  /\ isGameActive = s.isGameActive
  /\ isGamePaused = s.isGamePaused
  /\ physicsPaused = s.physicsPaused
  /\ player1Score = s.player1Score
  /\ player2Score = s.player2Score
  /\ lastGoal = s.lastGoal
  /\ lastManual = s.lastManual
  /\ ui = s.ui
  /\ events = s.events
  /\ endTween = s.endTween
  /\ queued = s.queued
  /\ victoryData = s.victoryData

Init ==
  /\ InitAs(startGame(Created))
  /\ scene = "GameScene"
  /\ phase = "clock"
  /\ coll = 0
  /\ dt = MaxDelta
  /\ keys = <<NoKeys, NoKeys>>
  /\ kickCall = NoCall
  /\ ai = NoAI

-----------------------------------------------------------------------------
(* The scene clock and the tween manager, once per frame *)

\* time.now moves on by the frame delta
AdvanceNow(s, d) ==
  [s EXCEPT !.lastGoal.age = Sat(@ + d, GoalAgeCap),
            !.lastManual = [p \in Players |-> Sat(@[p] + d, ManualAgeCap)]]

\* the match clock: a repeating TimerEvent of TimerDelay that honours its paused flag
TickGameTimer(s, d) ==
  IF s.ui.gameTimer.alive /\ ~s.ui.gameTimer.paused
  THEN IF s.ui.gameTimer.elapsed + d >= TimerDelay
       THEN updateTimer([s EXCEPT !.ui.gameTimer.elapsed = @ + d - TimerDelay])
       ELSE [s EXCEPT !.ui.gameTimer.elapsed = @ + d]
  ELSE s

AdvanceEvents(s, d) ==
  [s EXCEPT !.events = [i \in 1..Len(@) |-> [@[i] EXCEPT !.rem = @ - d]]]

Due(s) == SelectSeq(s.events, LAMBDA e : e.rem <= 0)

Callback(s, e) ==
  CASE e.kind = "jumpFall" -> JumpFallCallback(s, e.p)
    [] e.kind = "jumpLand" -> JumpLandCallback(s, e.p)
    [] e.kind = "kickoffDelay" -> KickoffCallback(s)
    [] e.kind = "goalCelebration" -> CelebrationCallback(s)

\* the due events run in insertion order; one destroyed by an earlier callback does not run
RECURSIVE Fire(_, _)
Fire(s, due) ==
  IF due = <<>> THEN s
  ELSE IF \E i \in 1..Len(s.events) : s.events[i].id = Head(due).id /\ s.events[i].rem <= 0
       THEN Fire(Callback(destroyTimer(s, Head(due).id), Head(due)), Tail(due))
       ELSE Fire(s, Tail(due))

FireDue(s) == Fire(s, Due(s))

\* the fade tween of handleGameEnd: it advances from the frame after it was added
TweenUpdate(before, s, d) ==
  IF before.endTween.alive /\ s.endTween.alive
  THEN IF s.endTween.rem - d <= 0
       THEN [s EXCEPT !.endTween.alive = FALSE, !.endTween.rem = 0,
                      !.queued = "VictoryScene", !.victoryData = s.endTween.data]
       ELSE [s EXCEPT !.endTween.rem = @ - d]
  ELSE s

ClockStep(s, d) ==
  TweenUpdate(s, FireDue(TickGameTimer(AdvanceEvents(AdvanceNow(s, d), d), d)), d)

Running == scene = "GameScene"

ClockUpdate ==
  /\ Running /\ phase = "clock" /\ queued = ""
  /\ \E d \in Deltas : Commit(ClockStep(St, d)) /\ dt' = d /\ ai' = AIClock(ai, d)
  /\ phase' = "world"
  /\ coll' = 0
  /\ UNCHANGED <<scene, keys, kickCall>>

\* the scene manager runs a queued scene.start at the start of the next frame
SceneSwitch ==
  /\ Running /\ phase = "clock" /\ queued # ""
  /\ scene' = queued
  /\ events' = <<>>
  /\ UNCHANGED <<player, ball, isGameActive, isGamePaused, physicsPaused, player1Score,
                 player2Score, lastGoal, lastManual, ui, endTween, queued, victoryData,
                 phase, coll, dt, keys, kickCall, ai>>

\* the "down" listener of the P key
PKeyDown ==
  /\ Running /\ phase = "clock" /\ queued = ""
  /\ Commit(IF isPaused(St) THEN resumeGame(St) ELSE pauseGame(St))
  /\ UNCHANGED <<scene, phase, coll, dt, keys, kickCall, ai>>

\* the "down" listener of the ESC key: scene.start("StartScene"), which shuts this scene
\* down before its next frame
EscKeyDown ==
  /\ Running /\ phase = "clock" /\ queued = ""
  /\ isGameActive
  /\ scene' = "StartScene"
  /\ events' = <<>>
  /\ UNCHANGED <<player, ball, isGameActive, isGamePaused, physicsPaused, player1Score,
                 player2Score, lastGoal, lastManual, ui, endTween, queued, victoryData,
                 phase, coll, dt, keys, kickCall, ai>>

-----------------------------------------------------------------------------
(* The arcade physics world, once per frame unless physics is paused *)

\* a player's body moves by its vertical velocity; the ground and the world's top stop it
StepBody(pl, d) ==
  LET y1 == pl.y + (pl.vy * d) \div 1000
  IN  IF y1 >= GroundLevel /\ pl.vy > 0 THEN [pl EXCEPT !.y = GroundLevel, !.vy = 0]
      ELSE IF y1 <= WorldTopY THEN [pl EXCEPT !.y = WorldTopY, !.vy = 0]
      ELSE [pl EXCEPT !.y = y1]

\* what integration leaves of the ball's motion: a ball at rest stays at rest, a moving
\* ball keeps its direction
RollSpeed == 100
Integrated(b) ==
  IF b.vx = 0 /\ b.vy = 0 THEN b
  ELSE [vx |-> (IF b.vx < 0 THEN -RollSpeed ELSE RollSpeed), vy |-> 0, spin |-> 0]

WorldStep ==
  /\ Running /\ phase = "world"
  /\ IF physicsPaused
     THEN /\ phase' = "update"
          /\ UNCHANGED <<player, ball>>
     ELSE /\ phase' = "overlap"
          /\ player' = [p \in Players |-> StepBody(player[p], dt)]
          /\ ball' = Integrated(ball)
  /\ UNCHANGED <<isGameActive, isGamePaused, physicsPaused, player1Score, player2Score,
                 lastGoal, lastManual, ui, events, endTween, queued, scene, victoryData,
                 coll, dt, keys, kickCall, ai>>

(* The callbacks registered in setupPhysics, in registration order: the two *)
(* goal zones (1, 2), the goal posts (3), ball and player (4, 5), player    *)
(* and player (6).                                                          *)
Callbacks(i) == /\ Running /\ phase = "overlap" /\ coll < i
                /\ coll' = i
                /\ UNCHANGED <<scene, phase, dt, keys, kickCall, ai>>

\* the ball overlaps the goal zone of a side: the other side's player scores
\* the ball can still be let into a goal
GoalsLeft == player1Score + player2Score < MaxGoals

OverlapGoalZone ==
  \E side \in Players :
    /\ Callbacks(side)
    /\ GoalsLeft
    /\ Commit(handleGoal(St, Other(side)))

GoalPostHit ==
  /\ Callbacks(3)
  /\ ball.vx # 0 \/ ball.vy # 0
  /\ Commit([St EXCEPT !.ball = onGoalPostHit(@)])

Relatives == {-1, 0, 1}
ContactDistances == {45}

OverlapBallPlayerWith(P, R) ==
  \E p \in P, rel \in R, distance \in ContactDistances :
    /\ Callbacks(3 + p)
    /\ Commit(handlePlayerBallContact(St, p, rel, distance))

OverlapBallPlayer == OverlapBallPlayerWith(Players, Relatives)

OverlapPlayers ==
  /\ Callbacks(6)
  /\ Commit(handlePlayerCollision(St))

-----------------------------------------------------------------------------
(* GameScene.update, the end of the frame *)

Pressed(k) == Cardinality({f \in {"left", "right", "up", "down", "kick"} : k[f]})
KeyChoices == {k \in Keys : Pressed(k) <= 1 \/ (Pressed(k) = 2 /\ k.up /\ k.kick)}

\* what update reads of the positions: the ball's place, and per player the ball's
\* distance and the sign of ball.x - player.x
Far == 400
Geometry(x, y, d1, d2, r1, r2) ==
  [x |-> x, y |-> y, dist |-> <<d1, d2>>, rel |-> <<r1, r2>>]
Geoms ==
  {Geometry(576, 622, Far, Far, 1, -1),
   Geometry(576, 622, 45, Far, 1, -1), Geometry(576, 622, 45, Far, -1, -1),
   Geometry(576, 622, Far, 45, 1, -1), Geometry(576, 622, Far, 45, 1, 1),
   Geometry(576, 622, 45, 45, 1, -1),
   Geometry(90, 622, Far, Far, -1, -1), Geometry(1062, 622, Far, Far, 1, 1),
   Geometry(10, 622, Far, Far, -1, -1), Geometry(576, 10, Far, Far, 1, -1)}

SceneUpdateWith(K1, K2, G) ==
  /\ Running /\ phase \in {"overlap", "update"}
  /\ \E k1 \in K1, k2 \in K2, g \in G :
       /\ LeftGoalDetected(g.x, g.y) \/ RightGoalDetected(g.x, g.y) => GoalsLeft
       /\ Commit(update(St, dt, k1, k2, g))
       /\ keys' = <<k1, k2>>
  /\ phase' = "clock"
  /\ coll' = 0
  /\ UNCHANGED <<scene, dt, kickCall, ai>>

SceneUpdate == SceneUpdateWith(KeyChoices, KeyChoices, Geoms)

\* GameScene.update of a "1vAI" match: player 2 gets the controls of the AIController
SceneUpdateVsAI(K1, G, C) ==
  /\ Running /\ phase \in {"overlap", "update"}
  /\ ai.currentAction # "none"
  /\ \E k1 \in K1, g \in G, c \in C :
       /\ LeftGoalDetected(g.x, g.y) \/ RightGoalDetected(g.x, g.y) => GoalsLeft
       /\ Commit(updateVsAI(St, ai, dt, k1, g, c))
       /\ ai' = aiAfter(St, ai, dt, g, c)
       /\ keys' = <<k1, AsKeys(aiAfter(St, ai, dt, g, c).controls)>>
  /\ phase' = "clock"
  /\ coll' = 0
  /\ UNCHANGED <<scene, dt, kickCall>>

Next ==
  \/ ClockUpdate
  \/ SceneSwitch
  \/ PKeyDown
  \/ EscKeyDown
  \/ WorldStep
  \/ OverlapGoalZone
  \/ GoalPostHit
  \/ OverlapBallPlayer
  \/ OverlapPlayers
  \/ SceneUpdate

Spec == Init /\ [][Next]_vars


-----------------------------------------------------------------------------
(* Focused specifications: the same program and the same frame, each with   *)
(* the inputs and the callbacks one group of properties is about.           *)

Key(f) == [NoKeys EXCEPT ![f] = TRUE]
UpKick == [Key("up") EXCEPT !.kick = TRUE]
OpenField == Geometry(576, 622, Far, Far, 1, -1)
AtPlayer1 == Geometry(576, 622, 45, Far, 1, -1)
InLeftGoal == Geometry(90, 622, Far, Far, -1, -1)
InRightGoal == Geometry(1062, 622, Far, Far, 1, 1)

(* Goals of both sides by both detection paths, pause, ESC, the match clock *)
GoalUpdate == SceneUpdateWith({NoKeys, Key("right")}, {NoKeys}, {OpenField, InLeftGoal, InRightGoal})

GoalNext ==
  \/ ClockUpdate
  \/ SceneSwitch
  \/ PKeyDown
  \/ EscKeyDown
  \/ WorldStep
  \/ OverlapGoalZone
  \/ GoalUpdate

GoalSpec == Init /\ [][GoalNext]_vars

(* Every callback and the pause key, with player 1 holding the slide key: *)
(* contacts, collisions and goal triggers while the match runs, is frozen *)
(* or is paused                                                           *)
RightGoalZone == Callbacks(2) /\ GoalsLeft /\ Commit(handleGoal(St, 1))
Player1Contact == OverlapBallPlayerWith({1}, {1})
GuardUpdate == SceneUpdateWith({Key("down")}, {NoKeys}, {OpenField, AtPlayer1, InRightGoal})

GuardNext ==
  \/ ClockUpdate
  \/ SceneSwitch
  \/ PKeyDown
  \/ WorldStep
  \/ RightGoalZone
  \/ Player1Contact
  \/ OverlapPlayers
  \/ GuardUpdate

GuardSpec == Init /\ [][GuardNext]_vars

(* Jumps and kicks of player 1 cut short by goals and their kickoff resets *)
ResetUpdate == SceneUpdateWith({NoKeys, Key("up"), Key("kick"), UpKick}, {NoKeys}, {OpenField})

ResetNext ==
  \/ ClockUpdate
  \/ SceneSwitch
  \/ WorldStep
  \/ RightGoalZone
  \/ Player1Contact
  \/ ResetUpdate

ResetSpec == Init /\ [][ResetNext]_vars

(* Player 1 under every input, and the pause key *)
PauseUpdate == SceneUpdateWith(KeyChoices, {NoKeys}, {OpenField})

PauseNext ==
  \/ ClockUpdate
  \/ SceneSwitch
  \/ PKeyDown
  \/ WorldStep
  \/ PauseUpdate

PauseSpec == Init /\ [][PauseNext]_vars

(* Player 1 jumping and kicking, by input and by contact with the ball *)
KickUpdate == SceneUpdateWith({NoKeys, Key("up"), Key("kick"), UpKick}, {NoKeys},
                              {OpenField, AtPlayer1})

KickNext ==
  \/ ClockUpdate
  \/ SceneSwitch
  \/ WorldStep
  \/ Player1Contact
  \/ KickUpdate

KickSpec == Init /\ [][KickNext]_vars

(* Player 1 jumping and kicking, stunned by a sliding player 2 *)
StunUpdate == SceneUpdateWith({NoKeys, Key("up"), Key("kick")}, {NoKeys, Key("down")},
                              {OpenField})

StunNext ==
  \/ ClockUpdate
  \/ SceneSwitch
  \/ WorldStep
  \/ OverlapPlayers
  \/ StunUpdate

StunSpec == Init /\ [][StunNext]_vars

(* Slides and tackles of both players, with the ball touching player 1 *)
TackleUpdate == SceneUpdateWith({NoKeys, Key("down"), Key("kick")}, {NoKeys, Key("down")},
                                {OpenField})

TackleNext ==
  \/ ClockUpdate
  \/ SceneSwitch
  \/ WorldStep
  \/ Player1Contact
  \/ OverlapPlayers
  \/ TackleUpdate

TackleSpec == Init /\ [][TackleNext]_vars

(* The ball touching either player from either side or level with it, the *)
(* players facing either way, sliding or kicking                          *)
ContactUpdate == SceneUpdateWith({NoKeys, Key("left"), Key("down")}, {NoKeys, Key("kick")},
                                 {OpenField})

ContactNext ==
  \/ ClockUpdate
  \/ SceneSwitch
  \/ WorldStep
  \/ OverlapBallPlayer
  \/ ContactUpdate

ContactSpec == Init /\ [][ContactNext]_vars

(* Player 1 jumping by the left wall, the ball past the boundary margin, *)
(* above the goal and within reach of the manual contact check          *)
AtLeftWall == Geometry(10, 540, 61, Far, -1, -1)
WallKeys == {NoKeys, Key("up")}
\* player 1 is high enough for the ball at the wall to be within its distance
NearLeftWall == Abs(player[1].y - AtLeftWall.y) <= AtLeftWall.dist[1]

WallUpdate == SceneUpdateWith(WallKeys, {NoKeys}, {OpenField})
AirWallUpdate == NearLeftWall /\ SceneUpdateWith(WallKeys, {NoKeys}, {AtLeftWall})

WallNext ==
  \/ ClockUpdate
  \/ SceneSwitch
  \/ WorldStep
  \/ GoalPostHit
  \/ Player1Contact
  \/ WallUpdate
  \/ AirWallUpdate

WallSpec == Init /\ [][WallNext]_vars

(* Ball.kick and Ball.update called on their own, outside a match: the ball *)
(* starts with any of a few slow velocities and a spin, and a run is one   *)
(* call of Ball.kick or a series of Ball.update ticks, each call drawing   *)
(* its arguments                                                           *)
ForceXs == {-800, -400, 0, 50, 800}
ForceYs == {-300, -100, 0, 100}
Forces == [x : ForceXs, y : ForceYs]
KickTypes == {"normal", "slide", "jump"}
KickDistances == {0, 60, 150, 200, 300, 400}
Balls == [vx : {-10, -3, -2, 0, 2, 3, 10}, vy : {-2, 0, 2}, spin : {-5, 5}]
BallXs == {10, 25, 576, 1127, 1140}
BallYs == {10, 25, 622}

BallInit ==
  /\ \E b \in Balls : InitAs([startGame(Created) EXCEPT !.ball = b])
  /\ scene = "GameScene"
  /\ phase = "clock"
  /\ coll = 0
  /\ dt = MaxDelta
  /\ keys = <<NoKeys, NoKeys>>
  /\ kickCall = NoCall
  /\ ai = NoAI

\* one call of Ball.kick in a run
BallKickCall ==
  /\ kickCall = NoCall
  /\ \E force \in Forces, kickType \in KickTypes, distance \in KickDistances :
       /\ kickCall' = [kickType |-> kickType, force |-> force, distance |-> distance,
                       finalForce |-> KickForce(force, kickType, distance)]
       /\ ball' = BallKick(ball, force, kickType, distance)
  /\ UNCHANGED <<player, isGameActive, isGamePaused, physicsPaused, player1Score,
                 player2Score, lastGoal, lastManual, ui, events, endTween, queued, scene,
                 victoryData, phase, coll, dt, keys, ai>>

BallUpdateAt(x, y) ==
  /\ ball' = BallUpdate(ball, x, y)
  /\ UNCHANGED <<player, isGameActive, isGamePaused, physicsPaused, player1Score,
                 player2Score, lastGoal, lastManual, ui, events, endTween, queued, scene,
                 victoryData, phase, coll, dt, keys, kickCall, ai>>

\* the ticks of a ball that is not kicked
BallUpdateCall == kickCall = NoCall /\ \E x \in BallXs, y \in BallYs : BallUpdateAt(x, y)

BallNext ==
  \/ BallKickCall
  \/ BallUpdateCall

BallSpec == BallInit /\ [][BallNext]_vars

(* A "1vAI" match: the ball far off, near the AI's goal, within its chase  *)
(* distance and at its feet, at rest, rolling or rolling slowly           *)
NearOwnGoalFar == Geometry(1000, 622, Far, Far, 1, 1)
InChaseReach == Geometry(576, 600, Far, 100, 1, -1)
AtPlayer2 == Geometry(576, 622, Far, 50, 1, -1)
AIGeoms == {OpenField, NearOwnGoalFar, InChaseReach, AtPlayer2}
\* the side the AI's target lies on, the draw of its slide, the tenths of its dwell range
AIChoices == [left : {FALSE}, right : {TRUE}, slide : BOOLEAN, r : {0, 5}]

AIInit ==
  /\ InitAs(startGame(Created))
  /\ scene = "GameScene"
  /\ phase = "clock"
  /\ coll = 0
  /\ dt = MaxDelta
  /\ keys = <<NoKeys, NoKeys>>
  /\ kickCall = NoCall
  /\ ai = NewAI

\* integration leaves a moving ball slower than the AI's chase speed of 100
Slowed(b) ==
  IF b.vx = 0 /\ b.vy = 0 THEN b
  ELSE [vx |-> (IF b.vx < 0 THEN -50 ELSE 50), vy |-> 0, spin |-> 0]

SlowWorldStep ==
  /\ Running /\ phase = "world" /\ ~physicsPaused
  /\ ball.vx # 0 \/ ball.vy # 0
  /\ phase' = "overlap"
  /\ player' = [p \in Players |-> StepBody(player[p], dt)]
  /\ ball' = Slowed(ball)
  /\ UNCHANGED <<isGameActive, isGamePaused, physicsPaused, player1Score, player2Score,
                 lastGoal, lastManual, ui, events, endTween, queued, scene, victoryData,
                 coll, dt, keys, kickCall, ai>>

AIUpdateStep == SceneUpdateVsAI({NoKeys}, AIGeoms, AIChoices)

AINext ==
  \/ ClockUpdate
  \/ SceneSwitch
  \/ WorldStep
  \/ SlowWorldStep
  \/ AIUpdateStep

AISpec == AIInit /\ [][AINext]_vars

(* The ball near either player, both or none, and at the manual check's *)
(* distance from player 1                                               *)
BetweenPlayers == Geometry(576, 622, 60, 60, 1, -1)
AtCollisionDistance == Geometry(576, 622, CollisionDistance, Far, 1, -1)
ManualGeoms == {OpenField, AtPlayer1, AtPlayer2, BetweenPlayers, AtCollisionDistance}
ManualUpdate == SceneUpdateWith({NoKeys}, {NoKeys}, ManualGeoms)

ManualNext ==
  \/ ClockUpdate
  \/ SceneSwitch
  \/ WorldStep
  \/ ManualUpdate

ManualSpec == Init /\ [][ManualNext]_vars

(* Player 1 stunned by the slides of player 2, touched by the ball, and *)
(* holding its keys while stunned                                      *)
\* no key, each key alone, and all five together
StunnedKeys == {k \in Keys : Pressed(k) \in {0, 1, 5}}
StunnedUpdate ==
  IF player[1].isStunned
  THEN SceneUpdateWith(StunnedKeys, {Key("down")}, {OpenField})
  ELSE SceneUpdateWith({NoKeys, Key("up")}, {Key("down")}, {OpenField})

StunnedNext ==
  \/ ClockUpdate
  \/ SceneSwitch
  \/ WorldStep
  \/ Player1Contact
  \/ OverlapPlayers
  \/ StunnedUpdate

StunnedSpec == Init /\ [][StunnedNext]_vars

-----------------------------------------------------------------------------
(* Properties *)

Goals == player1Score + player2Score
PendingOf(kind) == {i \in 1..Len(events) : events[i].kind = kind}

\* C1: a goal trigger changes the score by exactly one goal, and only when no goal was
\* accepted less than 1000 time-units before it: of two triggers less than 1000 apart
\* only the first is counted, whichever detection path and goal they come from.
GoalDebounce_C1 ==
  [][Goals' # Goals =>
       /\ Goals' = Goals + 1
       /\ lastGoal.set => lastGoal.age >= GoalDebounce
       /\ lastGoal'.age = 0]_vars

\* a goal-zone callback has run on an active match less than 1000 after the last
\* accepted goal, and the match is still active: the trigger was not counted
GoalTriggerSuppressed ==
  /\ phase = "overlap" /\ coll \in {1, 2}
  /\ isGameActive /\ lastGoal.set /\ lastGoal.age < GoalDebounce
  /\ Goals = 1


JumpEventsOf(p) ==
  {i \in 1..Len(events) : events[i].kind \in {"jumpFall", "jumpLand"} /\ events[i].p = p}

\* player p is as a kickoff reset leaves a player, with no jump timer of its own pending
AsReset(p) ==
  /\ player[p].playerState = "idle" /\ ~player[p].isStunned
  /\ player[p].stunTimer = 0 /\ player[p].slideTimer = 0 /\ player[p].kickTimer = 0
  /\ player[p].vx = 0 /\ player[p].vy = 0 /\ player[p].y = GroundLevel
  /\ JumpEventsOf(p) = {}

\* C2: from a kickoff reset until the kickoff delay it starts has elapsed, each player is
\* idle and unstunned on the ground line with zero velocity and zero stun, slide and kick
\* timers, and no jump-fall or jump-land timer of that player is pending: none scheduled
\* before the reset is left to act on the player, whatever it was doing when the reset ran.
KickoffReset_C2 ==
  PendingOf("kickoffDelay") # {} => \A p \in Players : AsReset(p)

\* the goal celebration ends on the next frame while player 1 is off the ground in the
\* middle of a jump or an air kick, with a jump timer that would run after the reset
ResetCutsJump ==
  /\ phase = "clock"
  /\ \E i \in PendingOf("goalCelebration") : events[i].rem <= MaxDelta
  /\ \E i \in JumpEventsOf(1) : events[i].rem > MaxDelta
  /\ player[1].playerState \in {"jumping", "kicking"}
  /\ player[1].y < GroundLevel


\* the state-machine state and the tick-driven timers of player p
TimersOf(p) ==
  <<player[p].playerState, player[p].isStunned, player[p].stunTimer, player[p].slideTimer,
    player[p].kickTimer, player[p].kickCooldown>>

\* C3: between two states of one pause no player's state-machine state changes, the
\* stun, slide and kick timers and the kick cooldown keep their values, every pending
\* scene-clock callback (jump fall, jump land, kickoff delay, goal celebration) keeps its
\* remaining time, and the match clock keeps its time and its progress to the next second.
PauseFreezes_C3 ==
  [][ui.isGamePaused /\ ui.isGamePaused' =>
       /\ \A p \in Players : TimersOf(p)' = TimersOf(p)
       /\ events' = events
       /\ ui.gameTime' = ui.gameTime
       /\ ui.gameTimer' = ui.gameTimer]_vars


Celebrating == PendingOf("goalCelebration") # {}
KickingOff == PendingOf("kickoffDelay") # {}

\* a goal is accepted: the match freezes, every velocity is zero, the celebration starts
GoalAccepted ==
  Goals' # Goals =>
    /\ ~isGameActive'
    /\ \A p \in Players : player[p].vx' = 0 /\ player[p].vy' = 0
    /\ ball.vx' = 0 /\ ball.vy' = 0
    /\ \E i \in PendingOf("goalCelebration")' : events[i].rem' = GoalCelebrationMs

\* a kickoff after the start of the match begins only as a celebration ends
KickoffFromCelebration ==
  ~KickingOff /\ KickingOff' =>
    /\ Celebrating /\ ~Celebrating'
    /\ \E i \in PendingOf("goalCelebration") : events[i].rem <= dt'
    /\ \E i \in PendingOf("kickoffDelay")' : events[i].rem' = KickoffDelayMs

\* the match becomes active only as a kickoff delay elapses
ActivatedByKickoff ==
  ~isGameActive /\ isGameActive' =>
    /\ KickingOff /\ ~KickingOff'
    /\ \E i \in PendingOf("kickoffDelay") : events[i].rem <= dt'

\* one celebration or one kickoff delay at a time, and the match frozen throughout
FrozenToKickoff ==
  Celebrating \/ KickingOff =>
    /\ ~isGameActive
    /\ Cardinality(PendingOf("goalCelebration")) + Cardinality(PendingOf("kickoffDelay")) = 1

HandOffUnderWay_C6 ==
  ui.gameTime <= 0 /\ Running => endTween.alive \/ queued = "VictoryScene"


\* the score copy of the GameUI is the Match Controller's score
ScoresAgree == ui.player1Score = player1Score /\ ui.player2Score = player2Score

\* C7: the GameUI's scores are the Match Controller's after any sequence of accepted
\* goals, and when the match clock reaches zero the game-end data carry those scores and
\* the winner: 1 if player 1's score is strictly higher, 2 if player 2's is strictly
\* higher, 0 if the scores are equal.
WinnerAtZero_C7 ==
  /\ []ScoresAgree
  /\ [][ui.gameTime > 0 /\ ui.gameTime' <= 0 =>
          /\ endTween.data.player1Score' = player1Score'
          /\ endTween.data.player2Score' = player2Score'
          /\ player1Score' > player2Score' => endTween.data.winner' = 1
          /\ player2Score' > player1Score' => endTween.data.winner' = 2
          /\ player1Score' = player2Score' => endTween.data.winner' = 0]_vars

\* the clock has just reached zero with player 2 ahead, and player 2 is the winner
Player2WinsAtZero ==
  /\ ui.gameTime <= 0 /\ phase = "world" /\ endTween.rem = FadeDuration
  /\ player2Score > player1Score
  /\ endTween.data.winner = 2


\* the step is the scene's update of a running, unpaused match
ActiveTick ==
  /\ phase \in {"overlap", "update"} /\ phase' = "clock"
  /\ isGameActive /\ ~ui.isGamePaused

\* C8: on a tick of a running match, a player that is jumping and not stunned, with the
\* kick cooldown elapsed and the kick input asserted, is kicking after the tick, and the
\* fall and land timers pending before the tick are still pending after it.
AirKickOnAnyTick_C8 ==
  [][\A p \in Players :
       (/\ ActiveTick
        /\ player[p].playerState = "jumping" /\ ~player[p].isStunned
        /\ player[p].kickCooldown <= 0
        /\ keys'[p].kick)
       => /\ player[p].playerState' = "kicking"
          /\ \A i \in JumpEventsOf(p) : \E j \in JumpEventsOf(p)' : events[j]' = events[i]]_vars


\* the kick timer of player p expires on this tick
KickTimerExpires(p) ==
  /\ ActiveTick
  /\ player[p].playerState = "kicking"
  /\ player[p].kickTimer > 0 /\ player[p].kickTimer - dt <= 0

\* C9: on the tick on which the kick timer of a kicking player expires, the player
\* becomes jumping if it is not grounded, and otherwise idle (from where only an action
\* key pressed on the same tick takes it further); it is left in no other state.
KickExpiry_C9 ==
  [][\A p \in Players :
       KickTimerExpires(p) =>
         /\ ~player[p].isOnGround => player[p].playerState' = "jumping"
         /\ player[p].isOnGround /\ ~keys'[p].up /\ ~keys'[p].down /\ ~keys'[p].kick
              => player[p].playerState' = "idle"
         /\ player[p].isOnGround /\ player[p].playerState' # "idle"
              => \/ keys'[p].up /\ player[p].playerState' = "jumping"
                 \/ keys'[p].down /\ player[p].playerState' = "sliding"
                 \/ keys'[p].kick /\ player[p].playerState' = "kicking"]_vars

\* the kick timer of an air kick has just expired and player 1 is jumping again
JumpResumedAfterAirKick ==
  /\ phase = "clock"
  /\ player[1].playerState = "jumping" /\ player[1].y < GroundLevel
  /\ player[1].kickTimer <= 0
  /\ player[1].kickCooldown = KickCooldown - KickDurationMs


\* player p is above the ground line and not moving down, no fall or land timer of its
\* own is pending, and a timer that has run is still held in a timer field, so that the
\* recovery after a kick schedules none
Stranded(p) ==
  /\ player[p].y < GroundLevel - GroundTolerance
  /\ player[p].vy <= 0
  /\ JumpEventsOf(p) = {}
  /\ ~NoJumpTimers(player[p])

\* C10: every jump ends with the player idle on the ground line: a jump, whatever air
\* kick, contact kick or stun it meets, never leaves the player above the ground line
\* with nothing moving it down and no fall or land timer to come.
JumpEnds_C10 == \A p \in Players : ~Stranded(p)


\* player p starts the tick idle, unstunned and standing on the ground line
GroundedIdle(p) ==
  /\ player[p].playerState = "idle" /\ ~player[p].isStunned
  /\ player[p].y = GroundLevel

\* C11: on a tick of a running match a grounded idle player takes exactly the
\* highest-priority action asserted, jump before slide before kick: with up asserted it
\* is jumping after the tick whatever down and kick are; with down and kick asserted
\* and no up, the slide being available, it is sliding.
ActionPriority_C11 ==
  [][\A p \in Players :
       ActiveTick /\ GroundedIdle(p) =>
         /\ keys'[p].up => player[p].playerState' = "jumping"
         /\ (~keys'[p].up /\ keys'[p].down /\ keys'[p].kick /\ player[p].slideTimer <= 0)
              => player[p].playerState' = "sliding"]_vars


\* C12: while a player's stun is active, from stun() until the stun timer expires or a
\* kickoff reset clears it, the player's state is stunned: no input, ball contact, timer
\* expiry or jump timer moves the player to another state.
StunnedWhileStunActive_C12 ==
  \A p \in Players : player[p].isStunned => player[p].playerState = "stunned"

\* the stun timer of player p expires on this tick
StunTimerExpires(p) ==
  /\ ActiveTick
  /\ player[p].stunTimer > 0 /\ player[p].stunTimer - dt <= 0

\* C13: on the tick on which the stun timer of a player expires, no action key being
\* pressed on that tick, the player is idle after the tick, whatever its state was before
\* the stun and whatever happened during the stun.
IdleAfterStun_C13 ==
  [][\A p \in Players :
       (StunTimerExpires(p) /\ ~keys'[p].up /\ ~keys'[p].down /\ ~keys'[p].kick)
         => player[p].playerState' = "idle"]_vars


\* the slide timer of player p expires on this tick
SlideTimerExpires(p) ==
  /\ ActiveTick
  /\ player[p].slideTimer > 0 /\ player[p].slideTimer - dt <= 0

FacingSign(p) == IF player[p].facingRight THEN 1 ELSE -1

EntersKicking(p) ==
  /\ player[p].playerState' = "kicking" /\ player[p].kickTimer' = KickDurationMs
  /\ player[p].playerState # "kicking" \/ player[p].kickTimer < KickDurationMs

\* what is left of the cooldown of player p when this step looks at it
CooldownLeft(p) ==
  IF ActiveTick /\ player[p].kickCooldown > 0
  THEN player[p].kickCooldown - dt ELSE player[p].kickCooldown

\* C15: every entry of a player into kicking, by kick input, air kick or ball contact,
\* sets the kick cooldown to 500 and happens only with the cooldown run down to zero, and
\* the cooldown runs down only by the delta of the player's ticks (a kickoff reset apart):
\* two successive entries are at least 500 of accumulated tick delta apart.
KickCooldown_C15 ==
  [][\A p \in Players :
       /\ EntersKicking(p) => CooldownLeft(p) <= 0 /\ player[p].kickCooldown' = KickCooldown
       /\ player[p].kickCooldown' > player[p].kickCooldown => EntersKicking(p)
       /\ player[p].kickCooldown' < player[p].kickCooldown =>
            \/ ActiveTick /\ player[p].kickCooldown' = player[p].kickCooldown - dt
            \/ ~KickingOff /\ KickingOff' /\ player[p].kickCooldown' = 0]_vars

\* the kick key was down on the last tick of player 1, who is idle again after a kick
\* with part of the cooldown still to run: the key did not start a second kick
KickHeldBack ==
  /\ phase = "clock" /\ isGameActive
  /\ keys[1].kick
  /\ player[1].playerState = "idle" /\ ~player[1].isStunned
  /\ player[1].kickCooldown > 0


\* this step is the contact callback of the ball and player p, handled while the match
\* is active and not paused, with the ball on side rel of the player
ContactHandled(p, rel) ==
  /\ isGameActive /\ ~ui.isGamePaused
  /\ OverlapBallPlayerWith({p}, {rel})

\* the ball as Ball.kick leaves it, called with the kick info of player p
KickedBy(p) ==
  \E d \in ContactDistances :
    ball' = BallKick(ball, getKickInfo(player[p]).force, getKickInfo(player[p]).type, d)

Bounced == ball'.vy = -100 /\ Abs(ball'.vx) = 200 /\ ball'.spin = ball.spin

\* C16: a handled contact is a proper kick, Ball.kick called with the player's kick info,
\* exactly when the player faces right with the ball to its right or faces left with the
\* ball to its left; every other contact, the ball level with the player included, is a
\* body bounce.
ProperKickBySide_C16 ==
  [][\A p \in Players, rel \in Relatives :
       ContactHandled(p, rel) =>
         IF (player[p].facingRight /\ rel = 1) \/ (~player[p].facingRight /\ rel = -1)
         THEN KickedBy(p) /\ ~Bounced
         ELSE Bounced /\ ~KickedBy(p)]_vars

\* player 2, facing left, has just kicked the ball to its left
KickedToTheLeft ==
  /\ phase = "overlap" /\ coll = 5 /\ isGameActive
  /\ ~player[2].facingRight
  /\ player[2].playerState = "kicking" /\ player[2].kickTimer = KickDurationMs
  /\ ball.vx < -200


\* player p faces the side rel the ball is on
FacesBall(p, rel) ==
  \/ player[p].facingRight /\ rel = 1
  \/ ~player[p].facingRight /\ rel = -1

\* C17: a body bounce sets the ball's velocity to exactly (+200, -100) when the ball is to
\* the right of the player and to (-200, -100) otherwise, and leaves the player, its
\* state, stun, slide and kick timers, kick cooldown and facing, as it was.
BodyBounce_C17 ==
  [][\A p \in Players, rel \in Relatives :
       (ContactHandled(p, rel) /\ ~FacesBall(p, rel)) =>
         /\ ball'.vx = IF rel = 1 THEN 200 ELSE -200
         /\ ball'.vy = -100
         /\ player'[p] = player[p]]_vars

\* the ball has just bounced to the left off player 1, who faces right and is not kicking
BouncedOffTheBack ==
  /\ phase = "overlap" /\ coll = 4 /\ isGameActive
  /\ player[1].facingRight /\ player[1].playerState # "kicking"
  /\ ball.vx = -200 /\ ball.vy = -100


\* this step is the player/player overlap callback, run while the match is active
CollisionHandled == isGameActive /\ ~ui.isGamePaused /\ OverlapPlayers

JustStunned(p) ==
  /\ player'[p].playerState = "stunned" /\ player'[p].isStunned
  /\ player'[p].stunTimer = StunDurationMs

SlidesAlone(p) ==
  player[p].playerState = "sliding" /\ player[Other(p)].playerState # "sliding"

\* C18: at a player/player overlap while the match is active, if exactly one of the two
\* players is sliding the other one, and only that one, becomes stunned; if both or
\* neither are sliding, no player's state or timers change.
TackleStuns_C18 ==
  [][CollisionHandled =>
       /\ \A p \in Players :
            SlidesAlone(p) => JustStunned(Other(p)) /\ player'[p] = player[p]
       /\ (~SlidesAlone(1) /\ ~SlidesAlone(2)) => player' = player]_vars

\* player 2, sliding, has just stunned player 1, who was not sliding
TackledBySlide ==
  /\ phase = "overlap" /\ coll = 6 /\ isGameActive
  /\ player[2].playerState = "sliding" /\ ~player[2].isStunned
  /\ player[1].playerState = "stunned" /\ player[1].stunTimer = StunDurationMs


\* what a kickoff reset is looked at by: the ball, the players and the active flag
KickoffView(s) == [ball |-> s.ball, player |-> s.player, isGameActive |-> s.isGameActive]

\* C19: from every reachable state, the kickoff reset applied twice in a row leaves the
\* ball's velocity and spin, the players' positions, velocities, state, timers, cooldown
\* and facing, and the active flag as the kickoff reset applied once leaves them.
ResetIdempotent_C19 ==
  KickoffView(resetToKickoff(resetToKickoff(St))) = KickoffView(resetToKickoff(St))

\* the kickoff reset after a goal has run, the match waits for the kickoff delay, and one
\* more reset would change nothing of the ball, the players and the active flag
ResetAfterGoal ==
  /\ Goals >= 1 /\ KickingOff /\ ~Celebrating
  /\ KickoffView(resetToKickoff(St)) = KickoffView(St)


\* this step is the tick of an active, unpaused match that reads key k1 and positions g
TickOf(k1, g) ==
  /\ ActiveTick
  /\ g = AtLeftWall => NearLeftWall
  /\ SceneUpdateWith({k1}, {NoKeys}, {g})

\* the ball as the boundary and stability pass leaves it when it runs after the manual
\* contact checks of the tick
ResolvedFirst(k1, g) ==
  BallUpdate(checkManualCollisions(PlayerUpdate(PlayerUpdate(St, 1, dt, k1), 2, dt, NoKeys),
                                   g).ball, g.x, g.y)

\* C20: within one tick every collision response that writes the ball's velocity, the
\* manual-proximity contact included, is applied before the boundary clamp and the
\* stability floor of Ball.update run: the tick leaves the ball as that pass leaves it.
ResponsesBeforeBallUpdate_C20 ==
  [][\A k1 \in WallKeys, g \in {OpenField, AtLeftWall} :
       TickOf(k1, g) => ball' = ResolvedFirst(k1, g)]_vars


\* this step is a call of Ball.kick
KickCalled ==
  /\ kickCall'.kickType # "none"
  /\ ball' = BallKick(ball, kickCall'.force, kickCall'.kickType, kickCall'.distance)

\* the square of the speed of the ball
Speed2(b) == b.vx * b.vx + b.vy * b.vy

\* C21: for every impulse, kick kind and distance, the velocity Ball.kick sets on the
\* ball has a magnitude of at most 1.2 times maxSpeed.
KickSpeedLimit_C21 ==
  [][KickCalled => 100 * Speed2(ball') <= (12 * MaxSpeed) * (12 * MaxSpeed)]_vars

\* a slide kick whose force before the limit was above 1.2 times maxSpeed has been cut down
KickCutDown ==
  /\ kickCall.kickType = "slide"
  /\ 100 * Speed2([vx |-> kickCall.finalForce.x, vy |-> kickCall.finalForce.y])
       > (12 * MaxSpeed) * (12 * MaxSpeed)
  /\ Abs(ball.vx) < Abs(kickCall.finalForce.x)


\* C22: for a normal kick the multiplier applied to the impulse lies in [0.8, 1.2] for
\* every distance, and is the same, saturated, for every distance of 150 or more.
NormalMultiplier_C22 ==
  kickCall.kickType = "normal" =>
    /\ 8 * Abs(kickCall.force.x) <= 10 * Abs(kickCall.finalForce.x)
    /\ 10 * Abs(kickCall.finalForce.x) <= 12 * Abs(kickCall.force.x)
    /\ kickCall.distance >= 150 => 10 * kickCall.finalForce.x = 12 * kickCall.force.x


\* C23: for every impulse and distance a jump kick gives, before the speed limit, a
\* vertical component that points up with a magnitude of exactly 2.0 times |impulse.y|,
\* and a horizontal component of 0.8 times impulse.x.
JumpKickForce_C23 ==
  kickCall.kickType = "jump" =>
    /\ kickCall.finalForce.y = -(2 * Abs(kickCall.force.y))
    /\ 10 * kickCall.finalForce.x = 8 * kickCall.force.x

\* a jump kick was called with an impulse that points down and sideways, and its force
\* points up
DownwardImpulseHeaded ==
  /\ kickCall.kickType = "jump"
  /\ kickCall.force.y > 0 /\ kickCall.force.x # 0
  /\ kickCall.finalForce.y < 0

\* C24: for every impulse and distance d a normal kick gives, before the speed limit, a
\* vertical component of -max(200, 1.5 d), whatever the sign or size of impulse.y.
NormalKickLift_C24 ==
  kickCall.kickType = "normal" =>
    10 * kickCall.finalForce.y =
      -(IF 15 * kickCall.distance > 2000 THEN 15 * kickCall.distance ELSE 2000)

\* a normal kick was called from beyond the distance where the lift leaves its minimum,
\* with an impulse that points down
LiftedFromAfar ==
  /\ kickCall.kickType = "normal"
  /\ kickCall.force.y > 0 /\ kickCall.distance > 150
  /\ kickCall.finalForce.y < -200


\* this step is Ball.update at (x, y), and the ball is slower than 3 when the stability
\* check looks at it, after the boundary check
SlowAtCheck(x, y) ==
  /\ BallUpdateAt(x, y)
  /\ Speed2(bounceY(bounceX(ball, x), y)) < 3 * 3

\* C25: if the ball's speed is below 3 when Ball.update runs its stability check, its
\* velocity and spin are exactly zero afterwards, and Ball.update run again on that
\* result, wherever the ball is, changes nothing.
StabilityFloor_C25 ==
  [][\A x \in BallXs, y \in BallYs :
       SlowAtCheck(x, y) =>
         /\ ball'.vx = 0 /\ ball'.vy = 0 /\ ball'.spin = 0
         /\ \A x2 \in BallXs, y2 \in BallYs : BallUpdate(ball', x2, y2) = ball']_vars

\* a ball that was spinning has been brought to rest by the stability check
BroughtToRest == kickCall = NoCall /\ ball.vx = 0 /\ ball.vy = 0 /\ ball.spin = 0


\* this step is a tick of the AI on which its decision clock fires, the ball at g
DecidesAt(g) ==
  /\ ActiveTick
  /\ ai.currentAction # "none" /\ ai.lastDecision > DecisionInterval
  /\ \E c \in AIChoices : ai' = AIUpdate(ai, St, dt, g, c)

\* C26: on each decision tick the AI selects the behaviour of the first rule that
\* matches, in this order: distance to the ball below 80 and the ball not moving (speed
\* at most 20), attack; distance below 120 and ball speed below 100, chase; ball
\* horizontally within 200 of the AI's own goal line, defend; otherwise idle.  At
\* distance 50 with the ball at rest it selects attack.
FirstRuleWins_C26 ==
  [][\A g \in AIGeoms :
       DecidesAt(g) =>
         /\ ai'.currentAction =
              IF g.dist[2] < 80 /\ Speed2(ball) <= 20 * 20 THEN "attack"
              ELSE IF g.dist[2] < 120 /\ Speed2(ball) < 100 * 100 THEN "chase"
              ELSE IF Abs(10 * g.x - 10368) < 2000 THEN "defend"
              ELSE "idle"
         /\ (g.dist[2] = 50 /\ ball.vx = 0 /\ ball.vy = 0) => ai'.currentAction = "attack"]_vars

\* the AI has just decided to attack
AttackDecided ==
  /\ phase = "clock" /\ isGameActive
  /\ ai.currentAction = "attack" /\ ai.lastDecision = 0

\* the engine's overlap callback of the ball and player p has resolved a contact in
\* this frame, whose update is the step
EngineResolved(p) ==
  /\ phase = "overlap" /\ coll = 3 + p /\ phase' = "clock"
  /\ isGameActive /\ ~ui.isGamePaused

\* the manual proximity check of the step resolves a contact of player p
ManualResolves(p) == lastManual[p] > 0 /\ lastManual'[p] = 0

\* C27: a contact of the ball and player 1 that the engine's overlap callback has
\* resolved in a frame is not resolved again by the manual proximity check of the same
\* frame.
ContactResolvedOnce_C27 == [][EngineResolved(1) => ~ManualResolves(1)]_vars

\* the step is the update of a running match that reads the positions g
UpdatesAt(g) == ActiveTick /\ SceneUpdateWith({NoKeys}, {NoKeys}, {g})

\* C28: the manual check resolves a contact of a player exactly when the ball is less
\* than 70 from that player and more than 200 time-units have passed since the manual
\* check last resolved a contact of that same player, whatever the distance and the
\* last resolution of the other player.
ManualRateLimit_C28 ==
  [][\A g \in ManualGeoms : \A p \in Players :
       UpdatesAt(g) =>
         (ManualResolves(p) <=> g.dist[p] < 70 /\ lastManual[p] > 200)]_vars

\* the manual check has resolved a contact of player 1 one tick after one of player 2
ResolvedOneAfterOther ==
  phase = "clock" /\ isGameActive /\ lastManual[1] = 0 /\ lastManual[2] = 100

\* the step is a tick of the AI, the ball at g, on which the jump condition of the
\* behaviour it executes holds: the ball above the player by the behaviour's threshold
\* (and rising, for defend) and the jump timer run out
JumpDue(g) ==
  /\ ActiveTick
  /\ ai.currentAction # "none"
  /\ \E c \in AIChoices : ai' = AIUpdate(ai, St, dt, g, c)
  /\ ai'.currentAction \in {"chase", "attack", "defend"}
  /\ g.y < player[2].y - (IF ai'.currentAction = "chase" THEN 30 ELSE 20)
  /\ ai'.currentAction = "defend" => ball.vy < 0
  /\ ai.jumpTimer - dt <= 0

\* C29: on a tick on which the jump condition of the executed behaviour holds, the
\* input the AI passes to Player.update has jump asserted.
JumpAsserted_C29 == [][\A g \in AIGeoms : JumpDue(g) => keys'[2].up]_vars

\* the step is a tick of the AI with the ball at g
AITick(g) ==
  /\ ActiveTick
  /\ ai.currentAction # "none"
  /\ \E c \in AIChoices : ai' = AIUpdate(ai, St, dt, g, c)

\* the distance below which the behaviour kicks
KickReach(action) ==
  CASE action = "chase" -> 60
    [] action = "attack" -> 70
    [] action = "defend" -> 80
    [] OTHER -> 0

\* C30: the AI's behaviour changes only on a step that takes a decision; a decision is
\* taken only when more than reactionTime / reactionSpeed (200) has passed since the
\* decision before it, and on every tick on which that much has passed, whatever is left
\* of the dwell sampled at the decision before; and the input of every tick is built by
\* the behaviour current after the tick's decision step: it holds kick exactly when the
\* ball is within that behaviour's reach, the AI's kick timer has run out and the player
\* is not kicking.
DecisionClock_C30 ==
  [][/\ ai'.currentAction # ai.currentAction => ai'.lastDecision = 0 /\ ai.lastDecision > 200
     /\ ai'.lastDecision = 0 /\ ai.lastDecision # 0 => ai.lastDecision > 200
     /\ \A g \in AIGeoms :
          AITick(g) =>
            /\ ai.lastDecision > 200 => ai'.lastDecision = 0 /\ ai'.actionTimer >= 400
            /\ keys'[2].kick <=> /\ g.dist[2] < KickReach(ai'.currentAction)
                                 /\ ai.kickTimer - dt <= 0
                                 /\ ~isKicking(St, 2)]_vars

\* the AI has just decided for idle, out of a behaviour in which it kicked less than 300
\* before and whose dwell has not run out
IdleDecidedEarly ==
  /\ phase = "clock" /\ isGameActive
  /\ ai.currentAction = "idle" /\ ai.lastDecision = 0 /\ ai.kickTimer > 500

\* a land timer of player p is pending on the scene clock
LandPending(p) == \E i \in 1..Len(events) : events[i].kind = "jumpLand" /\ events[i].p = p

\* C31: while the scene runs, whenever a player's state is jumping a land timer of
\* that player is pending; the recovery of an airborne player whose kick timer expires
\* schedules one when none is left.
LandTimerWhileJumping_C31 ==
  Running => \A p \in Players : player[p].playerState = "jumping" => LandPending(p)


\* C32: on a proper kick the ball is kicked with the player's kick info; the player
\* becomes kicking, with a fresh kick timer and cooldown, only if it is neither sliding
\* nor kicking and its kick cooldown has run out; otherwise the player is left as it
\* was: a sliding player stays sliding with its slide timer, a kicking player keeps its
\* kick timer and cooldown.
ProperKickAnimation_C32 ==
  [][\A p \in Players, rel \in Relatives :
       (ContactHandled(p, rel) /\ FacesBall(p, rel)) =>
         /\ KickedBy(p)
         /\ player'[p] =
              IF player[p].playerState \notin {"sliding", "kicking"}
                 /\ player[p].kickCooldown <= 0
              THEN [player[p] EXCEPT !.playerState = "kicking",
                                     !.kickTimer = KickDurationMs, !.kickCooldown = 500]
              ELSE player[p]]_vars

\* player 1, sliding to the right, has just kicked the ball and slides on
KickedWhileSliding ==
  /\ phase = "overlap" /\ coll = 4 /\ isGameActive
  /\ player[1].facingRight /\ player[1].playerState = "sliding" /\ player[1].slideTimer > 0
  /\ ball.vx > 200


\* the step is a tick of a running match that player p starts stunned
StunnedTick(p) == ActiveTick /\ player[p].isStunned

\* the tick starts no jump, slide or kick of player p and leaves it facing as it did,
\* with no horizontal velocity
NoInputTaken(p) ==
  /\ player'[p].facingRight = player[p].facingRight
  /\ player'[p].vx = 0
  /\ player'[p].vy = player[p].vy
  /\ player'[p].slideTimer <= player[p].slideTimer
  /\ player'[p].kickTimer <= player[p].kickTimer
  /\ player'[p].kickCooldown <= player[p].kickCooldown

\* C33: a tick that a player starts stunned, whatever inputs are held, leaves the
\* player's state and facing as they were, starts no jump, slide or kick, and leaves
\* its horizontal velocity at zero.
StunnedIgnoresInput_C33 ==
  [][\A p \in Players :
       StunnedTick(p) =>
         NoInputTaken(p) /\ player'[p].playerState = player[p].playerState]_vars


\* the kickoff reset has run in the frame: its kickoff delay has all its time to run
JustReset ==
  \E i \in 1..Len(events) : events[i].kind = "kickoffDelay" /\ events[i].rem = KickoffDelayMs

TimerFires ==
  /\ phase = "clock" /\ phase' = "world"
  /\ ui.gameTimer.alive /\ ~ui.gameTimer.paused
  /\ ui.gameTimer.elapsed + dt' >= 1000

\* the step signals the end of the game: updateTimer destroys its timer and calls
\* onGameEnd in the same branch
GameEndSignalled ==
  ui.gameTimer.alive /\ ~ui.gameTimer.alive'

KickSpinOfFinalVelocity_C37 ==
  kickCall # NoCall =>
    /\ \E d \in -2..2 :
         Abs(ball.spin) = (2 * (Length([x |-> ball.vx, y |-> ball.vy]) + d)) \div 100
    /\ ball.vx > 0 => ball.spin >= 0
    /\ ball.vx < 0 => ball.spin <= 0


\* C38: Ball.update leaves the ball's x in [25, 1127] and its y at 25 or more, and
\* whenever it puts the ball back on a bound the velocity on that axis keeps 80% of
\* its magnitude and points back into the arena: to the right at the left bound, to
\* the left at the right bound, down at the top; a ball the stability check stops is
\* left aside.
BoundBounce_C38 ==
  [][\A x \in BallXs, y \in BallYs :
       (BallUpdateAt(x, y) /\ ~SlowAtCheck(x, y)) =>
         /\ BallClampX(x) >= 25 /\ BallClampX(x) <= 1152 - 25 /\ BallClampY(y) >= 25
         /\ x < 25 => ball'.vx = Scale(Abs(ball.vx), 8, 10)
         /\ x > 1152 - 25 => ball'.vx = -Scale(Abs(ball.vx), 8, 10)
         /\ y < 25 => ball'.vy = Scale(Abs(ball.vy), 8, 10)]_vars


\* player p as the ground-status pass of this tick leaves it
AtGroundPass(p) == updateGroundStatus(updateTimers(St, p, dt), p).player[p]

\* C36: in every state, between ticks and when a contact computes the kick info, a
\* player whose state is jumping has the grounded flag false; and on a tick of a running
\* match a player who is not jumping at the ground-status pass leaves the tick with
\* the flag equal to (y >= groundLevel - 10).
GroundedFlag_C36 ==
  /\ [](\A p \in Players : player[p].playerState = "jumping" => ~player[p].isOnGround)
  /\ [][\A p \in Players :
          (ActiveTick /\ AtGroundPass(p).playerState # "jumping") =>
            player'[p].isOnGround = (player'[p].y >= GroundLevel - GroundTolerance)]_vars


\* game end has been signalled: the match clock has fired down to zero
GameEnded == Running /\ ui.gameTime <= 0

\* C39: once game end has been signalled the match is never active again and neither
\* score changes: no kickoff-delay or goal-celebration callback that was pending at
\* game end re-activates the match or lets a goal be accepted afterwards.
EndIsFinal_C39 ==
  /\ [](GameEnded => ~isGameActive)
  /\ [][GameEnded => player1Score' = player1Score /\ player2Score' = player2Score]_vars


Score(p) == IF p = 1 THEN player1Score ELSE player2Score

\* the step is a goal trigger for player p in a running match: the overlap callback of
\* the other side's goal zone, or an update that finds the ball in the other side's goal
GoalTriggerFor(p) ==
  /\ isGameActive
  /\ \/ phase = "overlap" /\ phase' = "overlap" /\ coll' = Other(p)
     \/ \E g \in {InLeftGoal, InRightGoal} :
          /\ SceneUpdateWith({NoKeys, Key("right")}, {NoKeys}, {g})
          /\ IF p = 2 THEN LeftGoalDetected(g.x, g.y) ELSE RightGoalDetected(g.x, g.y)

\* C40: both scores are 0 when the scene is entered and are natural numbers that never
\* decrease; a score changes only on a goal that is accepted, and that step raises the
\* score of the scoring side by exactly 1 and leaves the other score as it is.
ScoreCounts_C40 ==
  /\ player1Score = 0 /\ player2Score = 0
  /\ [](player1Score \in Nat /\ player2Score \in Nat)
  /\ [][/\ player1Score' >= player1Score /\ player2Score' >= player2Score
        /\ (player1Score' # player1Score \/ player2Score' # player2Score) =>
             \E p \in Players :
               /\ GoalTriggerFor(p)
               /\ lastGoal'.set /\ lastGoal'.age = 0
               /\ Score(p)' = Score(p) + 1
               /\ Score(Other(p))' = Score(Other(p))]_vars

\* each side has scored once, the second goal just accepted by the update
OneGoalEach ==
  /\ player1Score = 1 /\ player2Score = 1
  /\ phase = "clock" /\ lastGoal.age = 0 /\ ~isGameActive

====
